---- MODULE Spec2Model ----
(***************************************************************************)
(* A model of the notes service of src/app/main.py: the notes,             *)
(* attachments and note_history tables, the blob files under UPLOAD_DIR,   *)
(* and the request handlers that change them.                              *)
(*                                                                         *)
(* A handler is modelled as the sequence of its interactions with the      *)
(* shared state (the database and the upload directory): the read that     *)
(* db.get performs, each file operation, and the commit.  Every request    *)
(* runs in a worker p with its own Session, so what db.get loaded is a     *)
(* private copy (req[p].existing, req[p].item) and the writes reach the    *)
(* tables at db.commit().                                                  *)
(*                                                                         *)
(* The specifications share the same actions:                              *)
(*   Spec           requests run one after another (one worker),           *)
(*   ConcSpec       the requests of Workers overlap step by step,          *)
(*   TagSpec        the requests that carry tags, one after another, over  *)
(*                  more tag lists and tag filters,                        *)
(*   RoundTripSpec  parse_tags and serialize_tags applied to a string.     *)
(*                                                                         *)
(* Failures of the collaborators are nondeterministic outcomes of the step *)
(* that calls them: db.commit() may raise, and the read/write of an upload *)
(* chunk may raise OSError.                                                *)
(*                                                                         *)
(* Not modelled: created_at (a clock reading), content_type, the search    *)
(* parameter of list_notes, the HTML share page, failures of unlink, open  *)
(* and of a db.refresh() whose row is still there.                         *)
(* Primary keys come from counters that never reissue a value, and so do   *)
(* the values of uuid4(): nextToken numbers the ones share_note draws,     *)
(* nextStorage the ones upload_attachment draws.                           *)
(***************************************************************************)
EXTENDS Integers, Sequences, FiniteSets, TLC

(***************************************************************************)
(* Bounds of the model.                                                    *)
(***************************************************************************)
\* notes ever created
MaxNotes == 2
\* attachment rows ever inserted
MaxAtt == 2
\* note_history rows ever inserted
MaxHist == 3
\* uuid4() values ever drawn for share tokens
MaxTokens == 2
\* uuid4() values ever drawn for storage names
MaxUploads == 2
\* rows ever inserted, over the three tables
MaxRows == 4
\* bytes by which the longest uploaded body exceeds MAX_UPLOAD_SIZE
MaxOver == 1
\* requests started in one behaviour of ConcSpec
MaxReqs == 4
\* characters of the longest tags_text passed to parse_tags on its own
MaxText == 4
\* 1024 * 1024, scaled: the chunk size of file.file.read and the unit of
\* MAX_UPLOAD_SIZE
MiB == 1
\* UPLOAD_MAX_SIZE_MB, scaled (the default is 700, the tests set 10)
UPLOAD_MAX_SIZE_MB == 1

MAX_UPLOAD_SIZE == UPLOAD_MAX_SIZE_MB * MiB

Workers == {1, 2}

(***************************************************************************)
(* Strings that the code takes apart are sequences of one-character        *)
(* strings.  str.strip and str.lower on the model's alphabet.              *)
(***************************************************************************)
lower_char(c) ==
  CASE c = "O" -> "o"
    [] c = "U" -> "u"
    [] OTHER -> c

lower(s) == [i \in 1..Len(s) |-> lower_char(s[i])]

RECURSIVE lstrip(_)
lstrip(s) == IF s # <<>> /\ Head(s) = " " THEN lstrip(Tail(s)) ELSE s

RECURSIVE rstrip(_)
rstrip(s) ==
  IF s # <<>> /\ s[Len(s)] = " " THEN rstrip(SubSeq(s, 1, Len(s) - 1)) ELSE s

strip(s) == rstrip(lstrip(s))

InSeq(x, s) == \E i \in 1..Len(s) : s[i] = x

\* normalize_tags: trim, lowercase, drop empties, keep the first occurrence
RECURSIVE normalize_from(_, _)
normalize_from(tags, cleaned) ==
  IF tags = <<>> THEN cleaned
  ELSE LET tag == lower(strip(Head(tags)))
       IN  IF tag = <<>> \/ InSeq(tag, cleaned)
           THEN normalize_from(Tail(tags), cleaned)
           ELSE normalize_from(Tail(tags), Append(cleaned, tag))

normalize_tags(tags) == normalize_from(tags, <<>>)

\* mutant of join: the separator is ", "
RECURSIVE join_comma_blank(_)
join_comma_blank(parts) ==
  IF parts = <<>> THEN <<>>
  ELSE IF Len(parts) = 1 THEN Head(parts)
  ELSE Head(parts) \o <<",", " ">> \o join_comma_blank(Tail(parts))

\* ",".join(parts)
RECURSIVE join(_)
join(parts) ==
  IF parts = <<>> THEN <<>>
  ELSE IF Len(parts) = 1 THEN Head(parts)
  ELSE Head(parts) \o <<",">> \o join(Tail(parts))

\* mutant of serialize_tags: the tags are stored as they were passed
serialize_tags_raw(tags) == join(tags)

serialize_tags(tags) == join(normalize_tags(tags))

\* text.split(","): the segments between commas, empty ones included
RECURSIVE split_from(_, _, _)
split_from(text, cur, acc) ==
  IF text = <<>> THEN Append(acc, cur)
  ELSE IF Head(text) = ","
       THEN split_from(Tail(text), <<>>, Append(acc, cur))
       ELSE split_from(Tail(text), Append(cur, Head(text)), acc)

split(text) == split_from(text, <<>>, <<>>)

\* parse_tags: [t for t in tags_text.split(",") if t]
parse_tags(tags_text) ==
  IF tags_text = <<>> THEN <<>>
  ELSE SelectSeq(split(tags_text), LAMBDA t : t # <<>>)

(***************************************************************************)
(* The inputs the requests draw from.                                      *)
(***************************************************************************)
\* NoteIn bodies: title, body, tags, pinned
NoteIns ==
  { [title |-> "v1", body |-> "one", tags |-> <<>>, pinned |-> FALSE],
    [title |-> "v2", body |-> "two",
     tags |-> << <<"O">>, <<" ", "o">>, <<"U">> >>, pinned |-> TRUE] }

\* os.path.basename(file.filename or ""): "" when no name is left
Filenames == {"", "f.txt"}

BodySizes == 0..(MAX_UPLOAD_SIZE + MaxOver)

\* the ids and tokens requests name: each is absent until it is issued
NoteIds == 1..MaxNotes
AttIds == 1..MaxAtt
Tokens == 1..MaxTokens

(***************************************************************************)
(* The state.                                                              *)
(***************************************************************************)
VARIABLES
  notes,         \* table notes: id -> row
  attachments,   \* table attachments: id -> row
  note_history,  \* table note_history: id -> row
  blobs,         \* files of UPLOAD_DIR: storage_name -> bytes on disk
  nextNoteId,    \* identity of notes.id
  nextAttId,     \* identity of attachments.id
  nextHistId,    \* identity of note_history.id
  nextToken,     \* the next value of uuid4() in share_note
  nextStorage,   \* the next value of uuid4() in upload_attachment
  req,           \* per worker: the request it serves, its locals, its reply
  pre,           \* per worker: the tables and files when its request began
  issued,        \* <<token, note id>>: share_note returned the token for
                 \* the note, which has not been purged since
  given,         \* note id -> the tag list its last successful create_note
                 \* or update_note was passed
  call,          \* a call of parse_tags and serialize_tags on their own:
                 \* the argument, the position, the values returned
  started,       \* number of requests started (counted when they overlap)
  overlap        \* whether the host serves requests in parallel

tables == <<notes, attachments, note_history, blobs>>
counters == <<nextNoteId, nextAttId, nextHistId, nextToken, nextStorage>>
vars == <<notes, attachments, note_history, blobs, nextNoteId, nextAttId,
          nextHistId, nextToken, nextStorage, req, pre, issued, given,
          call, started, overlap>>

\* a Note row nobody loaded
NoNote ==
  [title |-> "", body |-> "", tags_text |-> <<>>, pinned |-> FALSE,
   archived |-> FALSE, share_token |-> 0]

\* an Attachment row nobody loaded
NoItem == [note_id |-> 0, filename |-> "", storage_name |-> <<0, "">>,
           size_bytes |-> 0]

NoIn == [title |-> "", body |-> "", tags |-> <<>>, pinned |-> FALSE]

\* a worker between requests
Idle ==
  [op |-> "none", pc |-> "idle", note_id |-> 0, att_id |-> 0, input |-> NoIn,
   filename |-> "", n |-> 0, flag |-> FALSE, tag |-> <<>>, token |-> 0,
   existing |-> NoNote, item |-> NoItem, storage_name |-> <<0, "">>,
   size_bytes |-> 0, remaining |-> 0, todo |-> {},
   status |-> 0, out |-> <<>>, fault |-> "none"]

Snapshot ==
  [notes |-> notes, attachments |-> attachments,
   note_history |-> note_history, blobs |-> blobs,
   nextHistId |-> nextHistId]

NoSnapshot ==
  [notes |-> <<>>, attachments |-> <<>>, note_history |-> <<>>,
   blobs |-> <<>>, nextHistId |-> 0]

Start ==
  /\ notes = <<>>
  /\ attachments = <<>>
  /\ note_history = <<>>
  /\ blobs = <<>>
  /\ nextNoteId = 1
  /\ nextAttId = 1
  /\ nextHistId = 1
  /\ nextToken = 1
  /\ nextStorage = 1
  /\ req = [p \in Workers |-> Idle]
  /\ pre = [p \in Workers |-> NoSnapshot]
  /\ issued = {}
  /\ given = <<>>
  /\ started = 0

\* no call of the tag functions on their own
NoCall == [pc |-> "none", tags_text |-> <<>>, tags |-> <<>>, out |-> <<>>]

\* requests one after another
Init == Start /\ overlap = FALSE /\ call = NoCall

\* request-parallel host (spec section 5; FastAPI runs a def handler in a
\* thread pool)
ConcInit == Start /\ overlap = TRUE /\ call = NoCall

(***************************************************************************)
(* Requests and their bookkeeping.                                         *)
(***************************************************************************)
\* worker p is inside a handler
Busy(p) == req[p].pc \notin {"idle", "done"}

Quiescent == \A p \in Workers : ~Busy(p)

\* worker p may take a new request
CanBegin(p) ==
  /\ req[p].pc = "idle"
  /\ IF overlap THEN started < MaxReqs ELSE p = 1

\* room for one more row in the tables
RoomForRow == (nextNoteId - 1) + (nextAttId - 1) + (nextHistId - 1) < MaxRows
RoomForNote == nextNoteId <= MaxNotes /\ RoomForRow
RoomForAttachment == nextAttId <= MaxAtt /\ RoomForRow
RoomForHistory == nextHistId <= MaxHist /\ RoomForRow

\* the reply of a finished request; the locals of the handler are dropped
Done(r, status, out, fault) ==
  [r EXCEPT !.pc = "done", !.existing = NoNote, !.item = NoItem,
            !.size_bytes = 0, !.remaining = 0, !.todo = {},
            !.status = status, !.out = out, !.fault = fault]

\* note.tags as create_note and update_note were passed it, kept for the
\* notes that exist, once request r stands as in r
given_after(r) ==
  IF r.pc # "done" \/ r.status # 200 THEN given
  ELSE CASE r.op = "create_note" -> given @@ (r.out[1].id :> r.input.tags)
         [] r.op = "update_note" -> [given EXCEPT ![r.note_id] = r.input.tags]
         [] r.op = "purge_note" ->
              [i \in DOMAIN given \ {r.note_id} |-> given[i]]
         [] OTHER -> given

\* worker p starts serving request r
Serve(p, r) ==
  /\ req' = [req EXCEPT ![p] = r]
  /\ given' = given_after(r)
  /\ pre' = [pre EXCEPT ![p] = IF overlap THEN NoSnapshot ELSE Snapshot]
  /\ started' = IF overlap THEN started + 1 ELSE started
  /\ UNCHANGED <<overlap, call>>

\* worker p goes on with its request
Step(p, r) ==
  /\ req' = [req EXCEPT ![p] = r]
  /\ given' = given_after(r)
  /\ UNCHANGED <<pre, started, overlap, call>>

Without(f, k) == [x \in DOMAIN f \ {k} |-> f[x]]

\* mutant of unlink: the file is left on disk
unlink_forgotten(files, storage_name) == files

\* if path.exists(): path.unlink()
unlink(files, storage_name) ==
  IF storage_name \in DOMAIN files THEN Without(files, storage_name) ELSE files

to_note_out(id, note) ==
  [id |-> id, title |-> note.title, body |-> note.body,
   tags |-> parse_tags(note.tags_text), pinned |-> note.pinned,
   archived |-> note.archived, share_url |-> note.share_token]

\* record_note_history: the row db.add() queues, a snapshot of the Note
\* object the handler holds
history_row(id, note, action) ==
  [note_id |-> id, action |-> action, title |-> note.title,
   body |-> note.body, tags_text |-> note.tags_text, pinned |-> note.pinned,
   archived |-> note.archived]

\* mutant of recorded: the snapshot is taken after the assignments
recorded_after(old, row) == row

\* the Note that record_note_history snapshots: the handlers call it before
\* they assign, so it is the row as loaded (old), not the row as written
recorded(old, row) == old

\* db.commit() of a handler that changed columns `dirty` of the Note it
\* loaded as `old` to `values` and queued at most one history row (action ""
\* queues none).  The UPDATE names only the changed columns; it raises
\* StaleDataError when the row is gone, and the transaction rolls back.
\* db.refresh() then reloads the row, and raises when the row is gone
\* (fault "gone" in the reply).
flush_note(id, old, values, dirty, action, fault) ==
  LET present == id \in DOMAIN notes
      failed == fault = "commit" \/ (dirty # {} /\ ~present)
      cur == notes[id]
      row == [cur EXCEPT
                !.title = IF "title" \in dirty THEN values.title ELSE @,
                !.body = IF "body" \in dirty THEN values.body ELSE @,
                !.tags_text =
                  IF "tags_text" \in dirty THEN values.tags_text ELSE @,
                !.pinned = IF "pinned" \in dirty THEN values.pinned ELSE @,
                !.archived =
                  IF "archived" \in dirty THEN values.archived ELSE @,
                !.share_token =
                  IF "share_token" \in dirty THEN values.share_token ELSE @]
      logged == ~failed /\ action # ""
  IN  [ok |-> ~failed /\ present /\ fault = "none",
       notes |-> IF failed \/ ~present THEN notes
                 ELSE [notes EXCEPT ![id] = row],
       note_history |->
         IF logged
         THEN note_history
              @@ (nextHistId :> history_row(id, recorded(old, row), action))
         ELSE note_history,
       nextHistId |-> IF logged THEN nextHistId + 1 ELSE nextHistId,
       out |-> IF ~failed /\ present /\ fault = "none"
               THEN <<to_note_out(id, row)>> ELSE <<>>]

\* the columns in which the loaded Note differs from the assigned values
changed(old, values, columns) == {c \in columns : old[c] # values[c]}

(***************************************************************************)
(* The read-only handlers, as functions of the tables and files s.         *)
(***************************************************************************)
RECURSIVE desc(_)
\* a finite set of numbers, largest first
desc(S) ==
  IF S = {} THEN <<>>
  ELSE LET m == CHOOSE x \in S : \A y \in S : y <= x
       IN  <<m>> \o desc(S \ {m})

\* mutant of list_notes_reply: ORDER BY id DESC alone
list_notes_reply_by_id(s, tag, include_archived) ==
  LET shown == {i \in DOMAIN s.notes :
                  include_archived \/ ~s.notes[i].archived}
      ordered == desc(shown)
      wanted == lower(strip(tag))
      kept == IF tag = <<>> THEN ordered
              ELSE SelectSeq(ordered,
                     LAMBDA i : InSeq(wanted, parse_tags(s.notes[i].tags_text)))
  IN  [status |-> 200,
       out |-> [k \in 1..Len(kept) |-> to_note_out(kept[k], s.notes[kept[k]])]]

\* list_notes without search: ORDER BY pinned DESC, id DESC, the archived
\* filter in the query, the tag filter on the rows fetched
list_notes_reply(s, tag, include_archived) ==
  LET shown == {i \in DOMAIN s.notes :
                  include_archived \/ ~s.notes[i].archived}
      ordered == desc({i \in shown : s.notes[i].pinned})
                 \o desc({i \in shown : ~s.notes[i].pinned})
      wanted == lower(strip(tag))
      kept == IF tag = <<>> THEN ordered
              ELSE SelectSeq(ordered,
                     LAMBDA i : InSeq(wanted, parse_tags(s.notes[i].tags_text)))
  IN  [status |-> 200,
       out |-> [k \in 1..Len(kept) |-> to_note_out(kept[k], s.notes[kept[k]])]]

attachment_out(id, item) ==
  [id |-> id, note_id |-> item.note_id, filename |-> item.filename,
   size_bytes |-> item.size_bytes]

list_attachments_reply(s, id) ==
  IF id \notin DOMAIN s.notes THEN [status |-> 404, out |-> <<>>]
  ELSE LET ids == desc({a \in DOMAIN s.attachments :
                          s.attachments[a].note_id = id})
       IN  [status |-> 200,
            out |-> [k \in 1..Len(ids) |->
                       attachment_out(ids[k], s.attachments[ids[k]])]]

\* the reply carries the file: its storage name and length
download_attachment_reply(s, aid) ==
  IF aid \notin DOMAIN s.attachments THEN [status |-> 404, out |-> <<>>]
  ELSE IF s.attachments[aid].storage_name \notin DOMAIN s.blobs
       THEN [status |-> 404, out |-> <<>>]
       ELSE [status |-> 200,
             out |-> <<[storage_name |-> s.attachments[aid].storage_name,
                        bytes |-> s.blobs[s.attachments[aid].storage_name],
                        filename |-> s.attachments[aid].filename]>>]

history_out(id, h) ==
  [id |-> id, note_id |-> h.note_id, action |-> h.action, title |-> h.title,
   body |-> h.body, tags |-> parse_tags(h.tags_text), pinned |-> h.pinned,
   archived |-> h.archived]

get_note_history_reply(s, id) ==
  IF id \notin DOMAIN s.notes THEN [status |-> 404, out |-> <<>>]
  ELSE LET ids == desc({h \in DOMAIN s.note_history :
                          s.note_history[h].note_id = id})
       IN  [status |-> 200,
            out |-> [k \in 1..Len(ids) |->
                       history_out(ids[k], s.note_history[ids[k]])]]

\* mutant of get_shared_note_reply: archived notes are filtered out, as in
\* list_notes
get_shared_note_reply_active(s, token) ==
  LET found == {i \in DOMAIN s.notes :
                  s.notes[i].share_token = token /\ ~s.notes[i].archived}
  IN  IF found = {} THEN [status |-> 404, out |-> <<>>]
      ELSE LET i == CHOOSE x \in found : TRUE
           IN  [status |-> 200, out |-> <<to_note_out(i, s.notes[i])>>]

\* select(Note).where(Note.share_token == share_token);
\* scalar_one_or_none() raises when two rows match
get_shared_note_reply(s, token) ==
  LET found == {i \in DOMAIN s.notes : s.notes[i].share_token = token}
  IN  IF found = {} THEN [status |-> 404, out |-> <<>>]
      ELSE IF Cardinality(found) > 1 THEN [status |-> 500, out |-> <<>>]
      ELSE LET i == CHOOSE x \in found : TRUE
           IN  [status |-> 200, out |-> <<to_note_out(i, s.notes[i])>>]
(***************************************************************************)
(* The handlers.  The first action of a handler takes the request; an      *)
(* action that ends the handler leaves its reply in req[p].                *)
(***************************************************************************)
\* db.commit() returns, or raises and the transaction is rolled back
Faults == {"none", "commit"}

\* create_note: the row is inserted at db.commit()
create_note(p, input) ==
  /\ CanBegin(p)
  /\ RoomForNote
  /\ \E fault \in Faults :
       LET r == [Idle EXCEPT !.op = "create_note", !.input = input]
           row == [title |-> input.title, body |-> input.body,
                   tags_text |-> serialize_tags(input.tags),
                   pinned |-> input.pinned, archived |-> FALSE,
                   share_token |-> 0]
       IN  /\ notes' = IF fault = "commit" THEN notes
                       ELSE notes @@ (nextNoteId :> row)
           /\ nextNoteId' = IF fault = "commit" THEN nextNoteId
                            ELSE nextNoteId + 1
           /\ Serve(p, Done(r, IF fault = "none" THEN 200 ELSE 500,
                            IF fault = "none"
                            THEN <<to_note_out(nextNoteId, row)>> ELSE <<>>,
                            fault))
  /\ UNCHANGED <<attachments, note_history, blobs, nextAttId, nextHistId,
                 nextToken, nextStorage, issued>>

\* db.get(Note, note_id) of a handler that goes on to "commit" with the row
load_note(p, r) ==
  /\ CanBegin(p)
  /\ IF r.note_id \notin DOMAIN notes
     THEN Serve(p, Done(r, 404, <<>>, "none"))
     ELSE Serve(p, [r EXCEPT !.pc = "commit", !.existing = notes[r.note_id]])
  /\ UNCHANGED <<tables, counters, issued>>

share_out(id, token) == <<[note_id |-> id, share_url |-> token]>>

\* what the handler of `op` returns for the Note it holds (out: its NoteOut)
reply(op, id, out) ==
  CASE op = "delete_note" -> <<id>>
    [] op = "share_note" -> share_out(id, out[1].share_url)
    [] OTHER -> out

\* the end of a handler that commits a change of its Note
commit_note(p, values, dirty, action) ==
  \E fault \in Faults :
    LET r == req[p]
        f == flush_note(r.note_id, r.existing, values, dirty, action, fault)
    IN  /\ notes' = f.notes
        /\ note_history' = f.note_history
        /\ nextHistId' = f.nextHistId
        /\ Step(p, Done(r, IF f.ok THEN 200 ELSE 500,
                        IF f.ok THEN reply(r.op, r.note_id, f.out) ELSE <<>>,
                        IF f.ok \/ fault # "none" THEN fault ELSE "gone"))

update_note_get(p, id, input) ==
  /\ RoomForHistory
  /\ load_note(p, [Idle EXCEPT !.op = "update_note", !.note_id = id,
                               !.input = input])

\* mutant of update_note_commit: the update also clears the archived flag
update_note_commit_unarchives(p) ==
  /\ req[p].op = "update_note" /\ req[p].pc = "commit"
  /\ RoomForHistory
  /\ LET values == [req[p].existing EXCEPT
                      !.title = req[p].input.title,
                      !.body = req[p].input.body,
                      !.tags_text = serialize_tags(req[p].input.tags),
                      !.pinned = req[p].input.pinned,
                      !.archived = FALSE]
     IN  commit_note(p, values,
                     changed(req[p].existing, values,
                             {"title", "body", "tags_text", "pinned",
                              "archived"}),
                     "update")
  /\ UNCHANGED <<attachments, blobs, nextNoteId, nextAttId, nextToken,
                 nextStorage, issued>>

\* record_note_history, the four assignments, db.commit(), db.refresh()
update_note_commit(p) ==
  /\ req[p].op = "update_note" /\ req[p].pc = "commit"
  /\ RoomForHistory
  /\ LET values == [req[p].existing EXCEPT
                      !.title = req[p].input.title,
                      !.body = req[p].input.body,
                      !.tags_text = serialize_tags(req[p].input.tags),
                      !.pinned = req[p].input.pinned]
     IN  commit_note(p, values,
                     changed(req[p].existing, values,
                             {"title", "body", "tags_text", "pinned"}),
                     "update")
  /\ UNCHANGED <<attachments, blobs, nextNoteId, nextAttId, nextToken,
                 nextStorage, issued>>

\* mutant of load_flag: the flag is not tested, every call goes on to commit
load_flag_untested(p, r, wanted) ==
  /\ CanBegin(p)
  /\ RoomForHistory
  /\ IF r.note_id \notin DOMAIN notes
     THEN Serve(p, Done(r, 404, <<>>, "none"))
     ELSE Serve(p, [r EXCEPT !.pc = "commit", !.existing = notes[r.note_id]])
  /\ UNCHANGED <<tables, counters, issued>>

\* archive_note, unarchive_note and delete_note up to the test of the flag:
\* a note already in the wanted state is answered at once
load_flag(p, r, wanted) ==
  /\ CanBegin(p)
  /\ RoomForHistory
  /\ IF r.note_id \notin DOMAIN notes
     THEN Serve(p, Done(r, 404, <<>>, "none"))
     ELSE IF notes[r.note_id].archived = wanted
          THEN Serve(p, Done(r, 200,
                             reply(r.op, r.note_id,
                                   <<to_note_out(r.note_id,
                                                 notes[r.note_id])>>),
                             "none"))
          ELSE Serve(p, [r EXCEPT !.pc = "commit",
                                  !.existing = notes[r.note_id]])
  /\ UNCHANGED <<tables, counters, issued>>

commit_flag(p, wanted, action) ==
  /\ req[p].pc = "commit"
  /\ RoomForHistory
  /\ commit_note(p, [req[p].existing EXCEPT !.archived = wanted],
                 {"archived"}, action)
  /\ UNCHANGED <<attachments, blobs, nextNoteId, nextAttId, nextToken,
                 nextStorage, issued>>

archive_note_get(p, id) ==
  load_flag(p, [Idle EXCEPT !.op = "archive_note", !.note_id = id], TRUE)

archive_note_commit(p) ==
  /\ req[p].op = "archive_note"
  /\ commit_flag(p, TRUE, "archive")

unarchive_note_get(p, id) ==
  load_flag(p, [Idle EXCEPT !.op = "unarchive_note", !.note_id = id], FALSE)

unarchive_note_commit(p) ==
  /\ req[p].op = "unarchive_note"
  /\ commit_flag(p, FALSE, "unarchive")

\* delete_note answers {"archived": note_id}
delete_note_get(p, id) ==
  load_flag(p, [Idle EXCEPT !.op = "delete_note", !.note_id = id], TRUE)

\* mutant of delete_note_commit: the history row says "delete"
delete_note_commit_logs_delete(p) ==
  /\ req[p].op = "delete_note"
  /\ commit_flag(p, TRUE, "delete")

delete_note_commit(p) ==
  /\ req[p].op = "delete_note"
  /\ commit_flag(p, TRUE, "archive")

share_note_get(p, id) ==
  /\ CanBegin(p)
  /\ nextToken <= MaxTokens
  /\ LET r == [Idle EXCEPT !.op = "share_note", !.note_id = id]
     IN  IF id \notin DOMAIN notes
         THEN /\ Serve(p, Done(r, 404, <<>>, "none"))
              /\ UNCHANGED issued
         ELSE IF notes[id].share_token # 0
              THEN /\ Serve(p, Done(r, 200,
                                    share_out(id, notes[id].share_token),
                                    "none"))
                   /\ issued' = issued \cup {<<notes[id].share_token, id>>}
              ELSE /\ Serve(p, [r EXCEPT !.pc = "commit",
                                         !.existing = notes[id]])
                   /\ UNCHANGED issued
  /\ UNCHANGED <<tables, counters>>

\* existing.share_token = uuid4().hex; db.commit(); db.refresh(existing)
share_note_commit(p) ==
  /\ req[p].op = "share_note" /\ req[p].pc = "commit"
  /\ nextToken <= MaxTokens
  /\ commit_note(p, [req[p].existing EXCEPT !.share_token = nextToken],
                 {"share_token"}, "")
  /\ nextToken' = IF req'[p].fault = "none" THEN nextToken + 1
                  ELSE nextToken
  /\ issued' = IF req'[p].status = 200
               THEN issued \cup {<<req'[p].out[1].share_url, req[p].note_id>>}
               ELSE issued
  /\ UNCHANGED <<attachments, blobs, nextNoteId, nextAttId, nextStorage>>

(***************************************************************************)
(* Attachments.                                                            *)
(***************************************************************************)
Min(a, b) == IF a < b THEN a ELSE b

\* upload_attachment up to destination.open("wb"), which creates the file.
\* An empty body leaves the loop at its first read.
upload_attachment_open(p, id, filename, n) ==
  /\ CanBegin(p)
  /\ nextStorage <= MaxUploads
  /\ RoomForAttachment
  /\ LET r == [Idle EXCEPT !.op = "upload_attachment", !.note_id = id,
                           !.filename = filename, !.n = n]
         storage_name == <<nextStorage, filename>>
     IN  IF id \notin DOMAIN notes
         THEN /\ Serve(p, Done(r, 404, <<>>, "none"))
              /\ UNCHANGED <<blobs, nextStorage>>
         ELSE IF filename = ""
              THEN /\ Serve(p, Done(r, 400, <<>>, "none"))
                   /\ UNCHANGED <<blobs, nextStorage>>
              ELSE /\ Serve(p, [r EXCEPT
                                  !.pc = IF n = 0 THEN "commit" ELSE "read",
                                  !.storage_name = storage_name,
                                  !.remaining = n])
                   /\ blobs' = blobs @@ (storage_name :> 0)
                   /\ nextStorage' = nextStorage + 1
  /\ UNCHANGED <<notes, attachments, note_history, nextNoteId, nextAttId,
                 nextHistId, nextToken, issued>>

\* mutant of too_large: a body of exactly the ceiling is refused
too_large_at_ceiling(size_bytes) == size_bytes >= MAX_UPLOAD_SIZE

\* if size_bytes > MAX_UPLOAD_SIZE
too_large(size_bytes) == size_bytes > MAX_UPLOAD_SIZE

\* one turn of the loop on a non-empty chunk: count, compare, write.  The
\* HTTPException of the size test is caught and the file unlinked; an OSError
\* of read or write is not caught by `except HTTPException`.
upload_attachment_chunk(p) ==
  /\ req[p].op = "upload_attachment" /\ req[p].pc = "read"
  /\ \E fault \in {"none", "io"} :
       LET r == req[p]
           chunk == Min(MiB, r.remaining)
           size_bytes == r.size_bytes + chunk
       IN  IF fault = "io"
           THEN /\ Step(p, Done(r, 500, <<>>, "io"))
                /\ UNCHANGED blobs
           ELSE IF too_large(size_bytes)
                THEN /\ Step(p, Done(r, 413, <<>>, "none"))
                     /\ blobs' = unlink(blobs, r.storage_name)
                ELSE /\ Step(p, [r EXCEPT
                                   !.size_bytes = size_bytes,
                                   !.remaining = r.remaining - chunk,
                                   !.pc = IF r.remaining = chunk
                                          THEN "commit" ELSE "read"])
                     /\ blobs' = IF r.storage_name \in DOMAIN blobs
                                 THEN [blobs EXCEPT ![r.storage_name] = @ + chunk]
                                 ELSE blobs
  /\ UNCHANGED <<notes, attachments, note_history, counters, issued>>

\* db.add(attachment); db.commit(), and the cleanup of `except Exception`
\* The foreign key of note_id is declared but SQLite does not enforce it (no
\* PRAGMA foreign_keys is issued), so the INSERT of a row whose note is gone
\* succeeds there; where the key is enforced the INSERT raises, which is the
\* outcome of fault "commit".
upload_attachment_commit(p) ==
  /\ req[p].op = "upload_attachment" /\ req[p].pc = "commit"
  /\ RoomForAttachment
  /\ \E fault \in Faults :
       LET r == req[p]
           row == [note_id |-> r.note_id, filename |-> r.filename,
                   storage_name |-> r.storage_name,
                   size_bytes |-> r.size_bytes]
       IN  /\ attachments' = IF fault = "commit" THEN attachments
                             ELSE attachments @@ (nextAttId :> row)
           /\ nextAttId' = IF fault = "commit" THEN nextAttId
                           ELSE nextAttId + 1
           /\ blobs' = IF fault = "none" THEN blobs
                       ELSE unlink(blobs, r.storage_name)
           /\ Step(p, Done(r, IF fault = "none" THEN 200 ELSE 500,
                           IF fault = "none"
                           THEN <<attachment_out(nextAttId, row)>> ELSE <<>>,
                           fault))
  /\ UNCHANGED <<notes, note_history, nextNoteId, nextHistId, nextToken,
                 nextStorage, issued>>

delete_attachment_get(p, aid) ==
  /\ CanBegin(p)
  /\ LET r == [Idle EXCEPT !.op = "delete_attachment", !.att_id = aid]
     IN  IF aid \notin DOMAIN attachments
         THEN Serve(p, Done(r, 404, <<>>, "none"))
         ELSE Serve(p, [r EXCEPT !.pc = "unlink", !.item = attachments[aid]])
  /\ UNCHANGED <<tables, counters, issued>>

\* if path.exists(): path.unlink()
delete_attachment_unlink(p) ==
  /\ req[p].op = "delete_attachment" /\ req[p].pc = "unlink"
  /\ blobs' = unlink(blobs, req[p].item.storage_name)
  /\ Step(p, [req[p] EXCEPT !.pc = "commit"])
  /\ UNCHANGED <<notes, attachments, note_history, counters, issued>>

\* db.delete(item); db.commit()
delete_attachment_commit(p) ==
  /\ req[p].op = "delete_attachment" /\ req[p].pc = "commit"
  /\ \E fault \in {"none", "commit"} :
       /\ attachments' = IF fault = "none" /\ req[p].att_id \in DOMAIN attachments
                         THEN Without(attachments, req[p].att_id)
                         ELSE attachments
       /\ Step(p, Done(req[p], IF fault = "none" THEN 200 ELSE 500,
                       IF fault = "none" THEN <<req[p].att_id>> ELSE <<>>,
                       fault))
  /\ UNCHANGED <<notes, note_history, blobs, counters, issued>>

(***************************************************************************)
(* Purge.                                                                  *)
(***************************************************************************)
\* mutant of delete_where_note_id: the delete has no WHERE clause
delete_every_row(table, id) == <<>>

\* delete(T).where(T.note_id == note_id): the rows of `table` that stay
delete_where_note_id(table, id) ==
  [k \in {x \in DOMAIN table : table[x].note_id # id} |-> table[k]]

\* db.get and the select of the note's attachments
purge_note_get(p, id) ==
  /\ CanBegin(p)
  /\ LET r == [Idle EXCEPT !.op = "purge_note", !.note_id = id]
         names == {attachments[a].storage_name :
                     a \in {x \in DOMAIN attachments :
                              attachments[x].note_id = id}}
     IN  IF id \notin DOMAIN notes
         THEN Serve(p, Done(r, 404, <<>>, "none"))
         ELSE Serve(p, [r EXCEPT !.pc = IF names = {} THEN "commit"
                                        ELSE "unlink",
                                 !.existing = notes[id], !.todo = names])
  /\ UNCHANGED <<tables, counters, issued>>

\* one turn of `for item in attachments`
purge_note_unlink(p) ==
  /\ req[p].op = "purge_note" /\ req[p].pc = "unlink"
  /\ \E name \in req[p].todo :
       /\ blobs' = unlink(blobs, name)
       /\ Step(p, [req[p] EXCEPT !.todo = @ \ {name},
                                 !.pc = IF req[p].todo = {name}
                                        THEN "commit" ELSE "unlink"])
  /\ UNCHANGED <<notes, attachments, note_history, counters, issued>>

\* the two bulk deletes, db.delete(existing) and db.commit(): one transaction
purge_note_commit(p) ==
  /\ req[p].op = "purge_note" /\ req[p].pc = "commit"
  /\ \E fault \in {"none", "commit"} :
       LET id == req[p].note_id
       IN  /\ IF fault = "commit"
              THEN UNCHANGED <<notes, attachments, note_history>>
              ELSE /\ attachments' = delete_where_note_id(attachments, id)
                   /\ note_history' = delete_where_note_id(note_history, id)
                   /\ notes' = IF id \in DOMAIN notes THEN Without(notes, id)
                               ELSE notes
           /\ issued' = IF fault = "commit" THEN issued
                        ELSE {pair \in issued : pair[2] # id}
           /\ Step(p, Done(req[p], IF fault = "none" THEN 200 ELSE 500,
                           IF fault = "none" THEN <<id>> ELSE <<>>, fault))
  /\ UNCHANGED <<blobs, counters>>

(***************************************************************************)
(* The read-only handlers.                                                 *)
(***************************************************************************)
answer(p, r, got) ==
  /\ CanBegin(p)
  /\ Serve(p, Done(r, got.status, got.out, "none"))
  /\ UNCHANGED <<tables, counters, issued>>

TagQueries == {<<>>, <<" ", "O">>, <<"x">>}

list_notes(p, tag, include_archived) ==
  answer(p, [Idle EXCEPT !.op = "list_notes", !.tag = tag,
                         !.flag = include_archived],
         list_notes_reply(Snapshot, tag, include_archived))

list_attachments(p, id) ==
  answer(p, [Idle EXCEPT !.op = "list_attachments", !.note_id = id],
         list_attachments_reply(Snapshot, id))

download_attachment(p, aid) ==
  answer(p, [Idle EXCEPT !.op = "download_attachment", !.att_id = aid],
         download_attachment_reply(Snapshot, aid))

get_note_history(p, id) ==
  answer(p, [Idle EXCEPT !.op = "get_note_history", !.note_id = id],
         get_note_history_reply(Snapshot, id))

get_shared_note(p, token) ==
  answer(p, [Idle EXCEPT !.op = "get_shared_note", !.token = token],
         get_shared_note_reply(Snapshot, token))

\* the reply leaves the worker, which forgets the request
respond(p) ==
  /\ req[p].pc = "done"
  /\ req' = [req EXCEPT ![p] = Idle]
  /\ pre' = [pre EXCEPT ![p] = NoSnapshot]
  /\ UNCHANGED <<tables, counters, issued, given, started, overlap, call>>

(***************************************************************************)
(* The specifications.                                                     *)
(***************************************************************************)
Next ==
  \E p \in Workers :
    \/ \E input \in NoteIns : create_note(p, input)
    \/ \E id \in NoteIds, input \in NoteIns : update_note_get(p, id, input)
    \/ update_note_commit(p)
    \/ \E id \in NoteIds : archive_note_get(p, id)
    \/ archive_note_commit(p)
    \/ \E id \in NoteIds : unarchive_note_get(p, id)
    \/ unarchive_note_commit(p)
    \/ \E id \in NoteIds : delete_note_get(p, id)
    \/ delete_note_commit(p)
    \/ \E id \in NoteIds : share_note_get(p, id)
    \/ share_note_commit(p)
    \/ \E id \in NoteIds, filename \in Filenames, n \in BodySizes :
         upload_attachment_open(p, id, filename, n)
    \/ upload_attachment_chunk(p)
    \/ upload_attachment_commit(p)
    \/ \E aid \in AttIds : delete_attachment_get(p, aid)
    \/ delete_attachment_unlink(p)
    \/ delete_attachment_commit(p)
    \/ \E id \in NoteIds : purge_note_get(p, id)
    \/ purge_note_unlink(p)
    \/ purge_note_commit(p)
    \/ \E tag \in TagQueries, include_archived \in BOOLEAN :
         list_notes(p, tag, include_archived)
    \/ \E id \in NoteIds : list_attachments(p, id)
    \/ \E aid \in AttIds : download_attachment(p, aid)
    \/ \E id \in NoteIds : get_note_history(p, id)
    \/ \E token \in Tokens : get_shared_note(p, token)
    \/ respond(p)

Spec == Init /\ [][Next]_vars

ConcSpec == ConcInit /\ [][Next]_vars

(***************************************************************************)
(* The requests that carry tags, one after another, over a wider choice of *)
(* tag lists and tag filters than Next draws.                              *)
(***************************************************************************)
\* note.tags: raw tags with capitals, blanks around them, duplicates, a tag
\* of blanks only, and a tag that holds a comma
TagLists ==
  { <<>>,
    << <<"O">>, <<" ", "o">>, <<"U">> >>,
    << <<" ">>, <<"u", " ">> >>,
    << <<"U">>, <<"o">>, <<"u">> >>,
    << <<"o", ",", "u">> >> }

TagIns ==
  {[title |-> "v1", body |-> "one", tags |-> tags, pinned |-> FALSE] :
     tags \in TagLists}

\* the tag parameter of list_notes; <<>> is the parameter left out
TagFilters ==
  {<<>>, <<" ", "O">>, <<"u">>, <<"U", " ">>, <<" ">>, <<"x">>,
   <<"o", ",", "u">>}

TagNext ==
  \E p \in Workers :
    \/ \E input \in TagIns : create_note(p, input)
    \/ \E id \in NoteIds, input \in TagIns : update_note_get(p, id, input)
    \/ update_note_commit(p)
    \/ \E id \in NoteIds : archive_note_get(p, id)
    \/ archive_note_commit(p)
    \/ \E tag \in TagFilters, include_archived \in BOOLEAN :
         list_notes(p, tag, include_archived)
    \/ respond(p)

TagSpec == Init /\ [][TagNext]_vars

(***************************************************************************)
(* parse_tags and serialize_tags on their own: a stored string is parsed   *)
(* and the list parsed is serialized again.                                *)
(***************************************************************************)
\* the characters of a tags_text: letters, a capital, the blank, the comma
Alphabet == {"o", "u", "O", " ", ","}

Texts == UNION {[1..n -> Alphabet] : n \in 0..MaxText}

RoundTripInit ==
  /\ Start
  /\ overlap = FALSE
  /\ \E tags_text \in Texts :
       call = [NoCall EXCEPT !.pc = "parse", !.tags_text = tags_text]

parse_tags_call ==
  /\ call.pc = "parse"
  /\ call' = [call EXCEPT !.pc = "serialize",
                          !.tags = parse_tags(call.tags_text)]
  /\ UNCHANGED <<tables, counters, req, pre, issued, given, started, overlap>>

serialize_tags_call ==
  /\ call.pc = "serialize"
  /\ call' = [call EXCEPT !.pc = "done", !.out = serialize_tags(call.tags)]
  /\ UNCHANGED <<tables, counters, req, pre, issued, given, started, overlap>>

RoundTripNext == parse_tags_call \/ serialize_tags_call

RoundTripSpec == RoundTripInit /\ [][RoundTripNext]_vars

(***************************************************************************)
(* Properties.                                                             *)
(***************************************************************************)
\* worker p has just finished a request of handler op
Finished(p, op) == req[p].pc = "done" /\ req[p].op = op

\* the attachments of note id in tables s
AttachmentsOf(s, id) ==
  {a \in DOMAIN s.attachments : s.attachments[a].note_id = id}

\* the history rows of note id in tables s
HistoryOf(s, id) ==
  {h \in DOMAIN s.note_history : s.note_history[h].note_id = id}

\* C1: whenever no request is inside a handler, every attachment row has a
\* blob file under the upload root named by its storage_name
C1_EveryRowHasItsBlob ==
  Quiescent =>
    \A a \in DOMAIN attachments :
      attachments[a].storage_name \in DOMAIN blobs

\* C2: upload is all-or-nothing on every exit path: when it has returned or
\* raised, either exactly one new blob and exactly one new row with the same
\* storage_name exist, or no new blob and no new row
C2_UploadAllOrNothing ==
  \A p \in Workers :
    Finished(p, "upload_attachment") =>
      LET newBlobs == DOMAIN blobs \ DOMAIN pre[p].blobs
          newRows == DOMAIN attachments \ DOMAIN pre[p].attachments
      IN  \/ newBlobs = {} /\ newRows = {}
          \/ \E name \in newBlobs, a \in newRows :
               /\ newBlobs = {name}
               /\ newRows = {a}
               /\ attachments[a].storage_name = name

\* C3: after purge(id) succeeds on an existing note, the note row, every
\* attachment row of the note, every blob of those attachments and every
\* history row of the note are gone; download of each attachment id that
\* belonged to the note answers 404, and so do list-attachments and
\* get-history of the note id
C3_PurgeRemovesEverything ==
  \A p \in Workers :
    Finished(p, "purge_note") /\ req[p].status = 200 =>
      LET id == req[p].note_id
      IN  /\ id \in DOMAIN pre[p].notes
          /\ id \notin DOMAIN notes
          /\ AttachmentsOf(Snapshot, id) = {}
          /\ HistoryOf(Snapshot, id) = {}
          /\ \A a \in AttachmentsOf(pre[p], id) :
               /\ a \notin DOMAIN attachments
               /\ pre[p].attachments[a].storage_name \notin DOMAIN blobs
               /\ download_attachment_reply(Snapshot, a).status = 404
          /\ list_attachments_reply(Snapshot, id).status = 404
          /\ get_note_history_reply(Snapshot, id).status = 404

\* a purge has succeeded on a note that had an attachment with its blob and
\* a history row
C3_Witness ==
  \E p \in Workers :
    /\ Finished(p, "purge_note") /\ req[p].status = 200
    /\ HistoryOf(pre[p], req[p].note_id) # {}
    /\ \E a \in AttachmentsOf(pre[p], req[p].note_id) :
         pre[p].attachments[a].storage_name \in DOMAIN pre[p].blobs

\* the fields a history entry snapshots
Fields(r) ==
  [title |-> r.title, body |-> r.body, tags |-> r.tags, pinned |-> r.pinned,
   archived |-> r.archived]

\* history `after` is history `before` with one newer entry on top, of
\* `action`, whose snapshot is the note as it was
OneMoreEntry(after, before, action, was) ==
  /\ Len(after) = Len(before) + 1
  /\ Tail(after) = before
  /\ after[1].action = action
  /\ Fields(after[1]) = Fields(was)
  /\ \A k \in 1..Len(before) : after[1].id > before[k].id

\* the calls that write history, and the entry each writes
HistoryAction(op) ==
  CASE op = "update_note" -> "update"
    [] op = "archive_note" -> "archive"
    [] op = "delete_note" -> "archive"
    [] op = "unarchive_note" -> "unarchive"

\* whether the call changes the state of a note that was `was`
ChangesState(op, was) ==
  CASE op = "update_note" -> TRUE
    [] op = "archive_note" -> ~was.archived
    [] op = "delete_note" -> ~was.archived
    [] op = "unarchive_note" -> was.archived

\* C4: history is a pre-image log.  Each update, archive, unarchive or
\* soft-delete executed after the others puts exactly one entry on top of
\* the note's history (listed newest first) when it changes the state: every
\* update, and archive, soft-delete, unarchive when they flip the flag; the
\* entry's snapshot of title/body/tags/pinned/archived is the note just
\* before the call.  A call that changes nothing (or fails) adds no entry.
C4_HistoryIsPreImageLog ==
  \A p \in Workers :
    /\ req[p].pc = "done"
    /\ req[p].op \in {"update_note", "archive_note", "delete_note",
                      "unarchive_note"}
    => LET id == req[p].note_id
           before == get_note_history_reply(pre[p], id)
           after == get_note_history_reply(Snapshot, id)
       IN  IF req[p].status = 200
              /\ ChangesState(req[p].op, pre[p].notes[id])
           THEN /\ after.status = 200
                /\ OneMoreEntry(after.out, before.out,
                                HistoryAction(req[p].op),
                                to_note_out(id, pre[p].notes[id]))
           ELSE after = before

HistoryActions(id) ==
  LET h == get_note_history_reply(Snapshot, id).out
  IN  [k \in 1..Len(h) |-> h[k].action]

\* create, update, archive, unarchive: the unarchive has returned and the
\* history reads unarchive, archive, update
C4_Witness ==
  \E p \in Workers :
    /\ Finished(p, "unarchive_note") /\ req[p].status = 200
    /\ HistoryActions(req[p].note_id) = <<"unarchive", "archive", "update">>

\* worker p commits a purge of note id in this step
PurgeCommits(p, id) ==
  /\ req[p].op = "purge_note" /\ req[p].pc = "commit"
  /\ req[p].note_id = id
  /\ req'[p].pc = "done" /\ req'[p].status = 200

\* C5: history is append-only.  A history row never changes, and it leaves
\* the table only in the commit of a purge of its own note: no other step of
\* any handler removes or alters it, and the purge of another note leaves it
C5_HistoryAppendOnly ==
  [][\A h \in DOMAIN note_history :
       \/ /\ h \in DOMAIN note_history'
          /\ note_history'[h] = note_history[h]
       \/ \E p \in Workers : PurgeCommits(p, note_history[h].note_id)]_vars

\* a purge has removed the history of its note and another note still has
\* a history row
C5_Witness ==
  \E p \in Workers :
    /\ Finished(p, "purge_note") /\ req[p].status = 200
    /\ HistoryOf(pre[p], req[p].note_id) # {}
    /\ \E h \in DOMAIN note_history :
         note_history[h].note_id # req[p].note_id

\* the wanted flag of archive and unarchive
Wanted(op) == op = "archive_note"

\* C6: archive and unarchive are idempotent.  A successful call leaves the
\* note in the wanted state and returns the note as it now is; on a note
\* already in that state it changes no table and no file and adds no history
\* row, so a second call in a row leaves what the first left
C6_ArchiveIdempotent ==
  \A p \in Workers :
    /\ req[p].pc = "done"
    /\ req[p].op \in {"archive_note", "unarchive_note"}
    /\ req[p].status = 200
    => LET id == req[p].note_id
       IN  /\ notes[id].archived = Wanted(req[p].op)
           /\ req[p].out = <<to_note_out(id, notes[id])>>
           /\ pre[p].notes[id].archived = Wanted(req[p].op)
                => Snapshot = pre[p]

\* archive has returned on a note that was archived already and has history
C6_Witness ==
  \E p \in Workers :
    /\ Finished(p, "archive_note") /\ req[p].status = 200
    /\ pre[p].notes[req[p].note_id].archived
    /\ HistoryOf(pre[p], req[p].note_id) # {}

\* what archiving does to tables s: nothing to a note that is absent or
\* archived; else the flag set and one "archive" row of the note as it was
ArchiveEffect(s, id) ==
  IF id \notin DOMAIN s.notes \/ s.notes[id].archived THEN s
  ELSE [s EXCEPT
          !.notes[id].archived = TRUE,
          !.note_history =
             @ @@ (s.nextHistId :>
                     [note_id |-> id, action |-> "archive",
                      title |-> s.notes[id].title, body |-> s.notes[id].body,
                      tags_text |-> s.notes[id].tags_text,
                      pinned |-> s.notes[id].pinned, archived |-> FALSE]),
          !.nextHistId = @ + 1]

\* C7: soft-delete is non-destructive and has exactly the state effect of
\* archive.  Both leave the same notes, history, attachment rows and blobs:
\* archived = TRUE and one "archive" entry when the note was active, nothing
\* changed when it was archived already (or when the commit fails).  After a
\* soft-delete the attachments list and download as before and the note is
\* in the list with include_archived = TRUE.
C7_SoftDeleteIsArchive ==
  \A p \in Workers :
    /\ req[p].pc = "done"
    /\ req[p].op \in {"archive_note", "delete_note"}
    => LET id == req[p].note_id
           listed == list_notes_reply(Snapshot, <<>>, TRUE).out
       IN  /\ Snapshot = IF req[p].fault = "none"
                         THEN ArchiveEffect(pre[p], id) ELSE pre[p]
           /\ req[p].status = 200 =>
                /\ notes[id].archived
                /\ list_attachments_reply(Snapshot, id)
                     = list_attachments_reply(pre[p], id)
                /\ \A a \in AttachmentsOf(pre[p], id) :
                     download_attachment_reply(Snapshot, a)
                       = download_attachment_reply(pre[p], a)
                /\ \E k \in 1..Len(listed) : listed[k].id = id

\* a soft-delete has returned on an active note whose attachment downloads
C7_Witness ==
  \E p \in Workers :
    /\ Finished(p, "delete_note") /\ req[p].status = 200
    /\ ~pre[p].notes[req[p].note_id].archived
    /\ \E a \in AttachmentsOf(Snapshot, req[p].note_id) :
         download_attachment_reply(Snapshot, a).status = 200

\* C8: a share token is assigned at most once per note and never rotated:
\* a token that share_note has returned for a note stays the note's
\* share_token, so every share of the note returns the same share_url
C8_TokenNeverRotated ==
  \A pair \in issued :
    pair[2] \in DOMAIN notes => notes[pair[2]].share_token = pair[1]

\* C9: a share link survives every operation but purge.  From the moment
\* share_note returns a token until the note is purged, get_shared_note of
\* the token answers that note with its current fields, archived or not; a
\* token no note carries answers 404
C9_ShareLinkSurvives ==
  /\ \A pair \in issued :
       /\ pair[2] \in DOMAIN notes
       /\ get_shared_note_reply(Snapshot, pair[1])
            = [status |-> 200,
               out |-> <<to_note_out(pair[2], notes[pair[2]])>>]
  /\ \A token \in 1..(MaxTokens + 1) :
       (\A id \in DOMAIN notes : notes[id].share_token # token)
         => get_shared_note_reply(Snapshot, token).status = 404

\* a note that had been shared and updated has now been archived, and its
\* link still answers
C9_Witness ==
  \E p \in Workers, pair \in issued :
    /\ Finished(p, "archive_note") /\ req[p].status = 200
    /\ pair = <<pre[p].notes[req[p].note_id].share_token, req[p].note_id>>
    /\ \E h \in HistoryOf(pre[p], req[p].note_id) :
         pre[p].note_history[h].action = "update"
    /\ notes[req[p].note_id].archived
    /\ get_shared_note_reply(Snapshot, pair[1]).status = 200

\* C10: the upload ceiling is exact and never overshot.  No blob on disk
\* ever holds more than MAX_UPLOAD_SIZE bytes.  An upload of n bytes to an
\* existing note under a non-empty filename, with no failure of disk or
\* database, succeeds with size_bytes = n when n <= MAX_UPLOAD_SIZE, and
\* answers 413 when n > MAX_UPLOAD_SIZE, leaving no blob and no row.
C10_CeilingExact ==
  /\ \A name \in DOMAIN blobs : blobs[name] <= MAX_UPLOAD_SIZE
  /\ \A p \in Workers :
       /\ Finished(p, "upload_attachment")
       /\ req[p].note_id \in DOMAIN pre[p].notes
       /\ req[p].filename # ""
       /\ req[p].fault = "none"
       => IF req[p].n <= MAX_UPLOAD_SIZE
          THEN /\ req[p].status = 200
               /\ req[p].out[1].size_bytes = req[p].n
               /\ \E a \in DOMAIN attachments \ DOMAIN pre[p].attachments :
                    /\ a = req[p].out[1].id
                    /\ attachments[a].storage_name = req[p].storage_name
                    /\ attachments[a].size_bytes = req[p].n
               /\ req[p].storage_name \in DOMAIN blobs
               /\ blobs[req[p].storage_name] = req[p].n
          ELSE /\ req[p].status = 413
               /\ req[p].storage_name \notin DOMAIN blobs
               /\ attachments = pre[p].attachments
               /\ blobs = pre[p].blobs

\* an upload one byte over the ceiling has been refused
C10_Witness ==
  \E p \in Workers :
    /\ Finished(p, "upload_attachment")
    /\ req[p].status = 413
    /\ req[p].n = MAX_UPLOAD_SIZE + 1

\* C11: update(id, ...) on an existing note changes only that note's title,
\* body, tags and pinned and adds exactly one "update" history row of the
\* note; its archived flag and share_token, the attachment rows, the blobs,
\* the other history rows and every other note are as before.  An archived
\* note is updated like any other and stays archived.  On an absent id the
\* answer is 404 and nothing changes.
C11_UpdateFrame ==
  \A p \in Workers :
    Finished(p, "update_note") =>
      LET id == req[p].note_id
          was == pre[p].notes
          added == DOMAIN note_history \ DOMAIN pre[p].note_history
      IN  IF id \notin DOMAIN was
          THEN req[p].status = 404 /\ Snapshot = pre[p]
          ELSE /\ req[p].status = 200 \/ req[p].fault = "commit"
               /\ req[p].status = 200 =>
                    /\ DOMAIN notes = DOMAIN was
                    /\ \A other \in DOMAIN notes \ {id} :
                         notes[other] = was[other]
                    /\ notes[id].title = req[p].input.title
                    /\ notes[id].body = req[p].input.body
                    /\ notes[id].pinned = req[p].input.pinned
                    /\ notes[id].archived = was[id].archived
                    /\ notes[id].share_token = was[id].share_token
                    /\ attachments = pre[p].attachments
                    /\ blobs = pre[p].blobs
                    /\ \A h \in DOMAIN pre[p].note_history :
                         /\ h \in DOMAIN note_history
                         /\ note_history[h] = pre[p].note_history[h]
                    /\ \E h \in added :
                         /\ added = {h}
                         /\ note_history[h].note_id = id
                         /\ note_history[h].action = "update"

\* an update has changed the title of an archived note that carries a share
\* token, while another note exists
C11_Witness ==
  \E p \in Workers :
    /\ Finished(p, "update_note") /\ req[p].status = 200
    /\ pre[p].notes[req[p].note_id].archived
    /\ pre[p].notes[req[p].note_id].share_token # 0
    /\ pre[p].notes[req[p].note_id].title # req[p].input.title
    /\ DOMAIN notes # {req[p].note_id}

\* C12: list_notes without search and without tag returns exactly the notes
\* that are not archived, or exactly all notes when include_archived is set,
\* each once and as it is stored, pinned notes before unpinned ones and
\* larger ids first within the pinned and within the unpinned notes;
\* archived notes that are included stand where the same rule puts them
C12_ListOrdered ==
  \A p \in Workers :
    Finished(p, "list_notes") /\ req[p].tag = <<>> =>
      LET out == req[p].out
          shown == {i \in DOMAIN notes : req[p].flag \/ ~notes[i].archived}
      IN  /\ req[p].status = 200
          /\ {out[k].id : k \in 1..Len(out)} = shown
          /\ Len(out) = Cardinality(shown)
          /\ \A k \in 1..Len(out) :
               out[k] = to_note_out(out[k].id, notes[out[k].id])
          /\ \A k, l \in 1..Len(out) :
               k < l =>
                 \/ out[k].pinned /\ ~out[l].pinned
                 \/ /\ out[k].pinned = out[l].pinned
                    /\ out[k].id > out[l].id

\* a list with include_archived shows an archived pinned note before a
\* newer unpinned one
C12_Witness ==
  \E p \in Workers :
    /\ Finished(p, "list_notes") /\ req[p].tag = <<>> /\ req[p].flag
    /\ Len(req[p].out) = 2
    /\ req[p].out[1].archived /\ req[p].out[1].pinned
    /\ req[p].out[1].id < req[p].out[2].id

\* the tags of a raw list: each trimmed and lowercased, the empty ones left out
Cleaned(list) ==
  {lower(strip(list[i])) : i \in 1..Len(list)} \ {<<>>}

\* where tag x first stands in the raw list
FirstSeen(list, x) ==
  CHOOSE i \in 1..Len(list) :
    /\ lower(strip(list[i])) = x
    /\ \A j \in 1..(i - 1) : lower(strip(list[j])) # x

\* out is normalize(list): the trimmed, lowercased, non-empty tags of list,
\* each once, in the order in which they first stand in list
IsNormalized(out, list) ==
  /\ {out[k] : k \in 1..Len(out)} = Cleaned(list)
  /\ \A k, l \in 1..Len(out) :
       k < l => FirstSeen(list, out[k]) < FirstSeen(list, out[l])

\* list_notes with tag t and without archived notes returns note id
Listed(t, id) ==
  \E k \in DOMAIN list_notes_reply(Snapshot, t, FALSE).out :
    list_notes_reply(Snapshot, t, FALSE).out[k].id = id

\* the note reports normalize(the list it was last given), and the tag
\* filters find it, while it is not archived, by exactly those tags.  The
\* empty t is the parameter left out (`if tag:`), which filters nothing.
TagsAsGiven(id) ==
  /\ IsNormalized(to_note_out(id, notes[id]).tags, given[id])
  /\ ~notes[id].archived =>
       \A t \in TagFilters \ {<<>>} :
         Listed(t, id) <=> lower(strip(t)) \in Cleaned(given[id])

\* C13 as claimed: for every tag list given to create or update, the note
\* reports normalize(list) afterwards, and list_notes with tag t returns a
\* note that is not archived exactly when trim-and-lowercase(t) is one of
\* normalize(the list the note was last given)
C13_TagsEndToEnd ==
  \A id \in DOMAIN notes : TagsAsGiven(id)

HasComma(list) ==
  \E i \in 1..Len(list) : InSeq(",", list[i])

\* C13 as amended: the same, for the tag lists none of whose tags holds a
\* comma
C13_TagsEndToEndWithoutComma ==
  \A id \in DOMAIN notes : ~HasComma(given[id]) => TagsAsGiven(id)

\* an update gave a note three raw tags, two of them the same tag, and a
\* list by that tag in capitals and with a blank has returned the note
C13_Witness ==
  \E p \in Workers :
    /\ Finished(p, "list_notes") /\ req[p].tag = <<" ", "O">>
    /\ \E k \in DOMAIN req[p].out :
         LET id == req[p].out[k].id
         IN  /\ given[id] = << <<"O">>, <<" ", "o">>, <<"U">> >>
             /\ req[p].out[k].tags = << <<"o">>, <<"u">> >>
             /\ HistoryOf(Snapshot, id) # {}

\* s is a comma-join of one or more tag segments: none of them empty, none
\* with a capital, none beginning or ending with a blank
JoinedLowercase(s) ==
  /\ s # <<>>
  /\ Head(s) \notin {",", " "} /\ s[Len(s)] \notin {",", " "}
  /\ \A i \in 1..(Len(s) - 1) :
       /\ ~(s[i] = "," /\ s[i + 1] \in {",", " "})
       /\ ~(s[i] = " " /\ s[i + 1] = ",")
  /\ \A i \in 1..Len(s) : s[i] \notin {"O", "U"}

\* C14 as claimed: serialize_tags(parse_tags(s)) = s for every s that is a
\* comma-join of one or more non-empty lowercase tag segments
C14_RoundTrip ==
  call.pc = "done" /\ JoinedLowercase(call.tags_text)
    => call.out = call.tags_text

\* no two segments of s are the same
DistinctSegments(s) ==
  \A k, l \in 1..Len(split(s)) : k # l => split(s)[k] # split(s)[l]

\* C14 as amended: the round trip holds when, besides, the segments are
\* pairwise different
C14_RoundTripDistinct ==
  /\ call.pc = "done"
  /\ JoinedLowercase(call.tags_text)
  /\ DistinctSegments(call.tags_text)
  => call.out = call.tags_text

\* a string of two different tags has been parsed and serialized again
C14_Witness ==
  /\ call.pc = "done"
  /\ call.tags_text = <<"o", ",", "u">>
  /\ call.tags = << <<"o">>, <<"u">> >>
  /\ call.out = call.tags_text

\* C15: whenever no request is inside a handler, the note_id of every
\* attachment row and of every history row is the id of a note that exists,
\* however the requests interleave, an upload, update or archive that
\* overlaps a purge of its note included
C15_DependentsHaveTheirNote ==
  Quiescent =>
    /\ \A a \in DOMAIN attachments :
         attachments[a].note_id \in DOMAIN notes
    /\ \A h \in DOMAIN note_history :
         note_history[h].note_id \in DOMAIN notes

\* the "archive" and "unarchive" rows of note id
FlagRows(id) ==
  {h \in DOMAIN note_history :
     /\ note_history[h].note_id = id
     /\ note_history[h].action \in {"archive", "unarchive"}}

\* C16: for each note, the "archive" and "unarchive" rows of its history,
\* taken by id, alternate and begin with "archive": the oldest is an
\* "archive" and no two neighbours carry the same action, however archive,
\* soft-delete and unarchive requests on the note interleave
C16_ArchiveUnarchiveAlternate ==
  \A id \in NoteIds :
    \A h \in FlagRows(id) :
      LET older == {g \in FlagRows(id) : g < h}
      IN  IF older = {}
          THEN note_history[h].action = "archive"
          ELSE \A g \in older :
                 (\A x \in older : x <= g) =>
                   note_history[g].action # note_history[h].action

====
